---- MODULE Spec2Model ----
(***************************************************************************)
(* Face registration and recognition orchestrator                          *)
(* (app_docker_compose/app/inference.py).                                  *)
(*                                                                         *)
(* The module-level handles collection (milvus), mysql_conn and redis_conn *)
(* are shared by every request.  Each request runs one of register_face,   *)
(* unregister_face, get_registered_face or recognize_face; one action      *)
(* models one collaborator call and the code that follows it up to the     *)
(* next collaborator call or the return, so that concurrent requests       *)
(* interleave between collaborator calls.                                  *)
(*                                                                         *)
(* Distances and descriptors are integers in hundredths: 0.1 is 10.        *)
(***************************************************************************)
EXTENDS Integers, Sequences, FiniteSets, TLC

VARIABLES
    collection,   \* milvus collection "faces": rows [id, embedding, person_id]
    mysql_conn,   \* person table: the ids of the committed rows
    redis_conn,   \* cache: entries [key, ttl]; ttl says an expiry is set
    calls,        \* number of requests started so far
    pc,           \* per request slot: position in the running function
    call,         \* per request slot: function and arguments of the call
    results,      \* per request slot: recognize_face's local `results`
    ret,          \* per request slot: the dict returned by the call
    trace         \* per request slot: history of the call (not program state)

vars == <<collection, mysql_conn, redis_conn, calls, pc, call, results, ret, trace>>

stores == <<collection, mysql_conn, redis_conn>>

----------------------------------------------------------------------------
(* Bounds of the model *)

MaxCalls == 2
MaxPersonId == 2

\* one slot per request, numbered in the order the requests arrive
Procs == 1..MaxCalls
PersonIds == 1..MaxPersonId

\* descriptors the extractor yields for registration images
RegFeats == {5}

----------------------------------------------------------------------------
(* Values *)

\* the columns of the person table bound by the INSERT statement
PersonFields == {"id", "name", "birthdate", "country", "city", "title", "org"}

\* key sets of the person_data dicts a caller passes
PersonDataKeys == {PersonFields, PersonFields \cup {"person_name"}}

\* run_inference results: no face, an internal error, detected faces
NoFace == [status |-> 0, face_detections |-> 0, face_feats |-> <<>>]

InferError == [status |-> -1, face_detections |-> 0, face_feats |-> <<>>]

Faces(feats) == [status |-> 0, face_detections |-> Len(feats), face_feats |-> feats]

NoCall == [op |-> "none"]

NoRet == [status |-> "none"]

NoTrace == [steps |-> {}, had_row |-> FALSE]

Outcome(status, message) == [status |-> status, message |-> message]

Rows(coll, person_id) == {r \in coll : r.person_id = person_id}

\* request p arrives next
Free(p) == pc[p] = "idle" /\ calls = p - 1

----------------------------------------------------------------------------
(* get_registered_face: the query either raises MilvusException, which is  *)
(* caught, or returns the rows whose person_id equals the argument.        *)

get_registered_face(person_id, query_ok) ==
    IF ~query_ok
    THEN Outcome("failed", "MilvusException")
    ELSE IF Rows(collection, person_id) = {}
         THEN Outcome("failed", "not found in database")
         ELSE Outcome("success", "found")

(* unregister_face: collection.delete(person_id in [person_id]) removes    *)
(* every row of the person; MilvusException is caught.                     *)

\* the delete expression matching the primary key instead of person_id
DeleteRows_ById(coll, person_id, delete_ok) ==
    IF delete_ok THEN {r \in coll : r.id # person_id} ELSE coll

DeleteRows(coll, person_id, delete_ok) ==
    IF delete_ok THEN coll \ Rows(coll, person_id) ELSE coll

\* a delete that matched no row reported as a failure
unregister_face_MissingIsError(person_id, delete_ok) ==
    IF delete_ok /\ Rows(collection, person_id) # {}
    THEN Outcome("success", "unregistered")
    ELSE Outcome("failed", "couldn't be unregistered")

unregister_face(person_id, delete_ok) ==
    IF delete_ok
    THEN Outcome("success", "unregistered")
    ELSE Outcome("failed", "couldn't be unregistered")

\* a delete by person_id ends the "registered since" history of the calls
\* that have not yet run their duplicate check
ForgetRow(tr, person_id, delete_ok) ==
    [q \in Procs |->
        IF delete_ok /\ call[q].op = "register_face" /\ pc[q] = "reg_check"
           /\ call[q].person_id = person_id
        THEN [tr[q] EXCEPT !.had_row = FALSE]
        ELSE tr[q]]

----------------------------------------------------------------------------
Init ==
    /\ collection = {}
    /\ mysql_conn = {}
    /\ redis_conn = {}
    /\ calls = 0
    /\ pc = [p \in Procs |-> "idle"]
    /\ call = [p \in Procs |-> NoCall]
    /\ results = [p \in Procs |-> <<>>]
    /\ ret = [p \in Procs |-> NoRet]
    /\ trace = [p \in Procs |-> NoTrace]

----------------------------------------------------------------------------
(* Leaving a function: by return (pc "done", ret the dict returned) or by  *)
(* an exception no handler of the function catches (pc "raised").          *)

Step(tr, name) == [tr EXCEPT !.steps = @ \cup {name}]

Return(p, outcome) ==
    /\ pc' = [pc EXCEPT ![p] = "done"]
    /\ ret' = [ret EXCEPT ![p] = outcome]

Raise(p, exception) ==
    /\ pc' = [pc EXCEPT ![p] = "raised"]
    /\ ret' = [ret EXCEPT ![p] = [status |-> "none", exception |-> exception]]

Goto(p, label) ==
    /\ pc' = [pc EXCEPT ![p] = label]
    /\ UNCHANGED ret

----------------------------------------------------------------------------
(* register_face *)

\* lines 134-146: run_inference and the two early returns.  Of person_data
\* the call reads the id here and the seven table columns at lines 170-171;
\* whether the dict also holds "person_name" is read at line 191 alone and
\* is drawn there.
RegisterInfer(p, person_id, pred_dict) ==
    /\ Free(p)
    /\ calls' = calls + 1
    /\ call' = [call EXCEPT ![p] = [op |-> "register_face", person_id |-> person_id,
                                    person_data |-> PersonFields, pred_dict |-> pred_dict]]
    /\ results' = [results EXCEPT ![p] = <<>>]
    /\ LET tr == [NoTrace EXCEPT !.had_row = (Rows(collection, person_id) # {})] IN
       IF pred_dict.status = 0 /\ pred_dict.face_detections = 0
       THEN /\ Return(p, Outcome("failed", "No faces were detected in the image"))
            /\ trace' = [trace EXCEPT ![p] = tr]
       ELSE IF pred_dict.status < 0
       THEN /\ Return(p, [pred_dict EXCEPT !.status = "failed"])
            /\ trace' = [trace EXCEPT ![p] = tr]
       ELSE /\ pc' = [pc EXCEPT ![p] = "reg_check"]
            /\ ret' = [ret EXCEPT ![p] = NoRet]
            /\ trace' = [trace EXCEPT ![p] = tr]
    /\ UNCHANGED stores

\* the duplicate check clearing the rows it found before it rejects
RegisterCheck_Clears(p) ==
    /\ pc[p] = "reg_check"
    /\ \E query_ok \in BOOLEAN :
        LET person_id == call[p].person_id
            tr == Step(trace[p], IF query_ok THEN "query" ELSE "query_failed")
        IN  IF get_registered_face(person_id, query_ok).status = "success"
            THEN /\ Return(p, Outcome("failed", "already exists in milvus db"))
                 /\ collection' = DeleteRows(collection, person_id, TRUE)
                 /\ trace' = [trace EXCEPT ![p] = tr]
            ELSE /\ Goto(p, "reg_insert")
                 /\ UNCHANGED collection
                 /\ trace' = [trace EXCEPT ![p] = tr]
    /\ UNCHANGED <<mysql_conn, redis_conn, calls, call, results>>

\* lines 148-154: the duplicate check through get_registered_face
RegisterCheck(p) ==
    /\ pc[p] = "reg_check"
    /\ \E query_ok \in BOOLEAN :
        LET person_id == call[p].person_id
            tr == Step(trace[p], IF query_ok THEN "query" ELSE "query_failed")
        IN  IF get_registered_face(person_id, query_ok).status = "success"
            THEN /\ Return(p, Outcome("failed", "already exists in milvus db"))
                 /\ trace' = [trace EXCEPT ![p] = tr]
            ELSE /\ Goto(p, "reg_insert")
                 /\ trace' = [trace EXCEPT ![p] = tr]
    /\ UNCHANGED <<stores, calls, call, results>>

\* the except branch of the insert without its return
RegisterInsert_Continues(p) ==
    /\ pc[p] = "reg_insert"
    /\ \E insert_ok \in BOOLEAN :
        LET person_id == call[p].person_id
            face_vector == call[p].pred_dict.face_feats[1]
            row == [id |-> p, embedding |-> face_vector, person_id |-> person_id]
        IN  IF insert_ok
            THEN /\ collection' = collection \cup {row}
                 /\ Goto(p, "reg_flush")
                 /\ trace' = [trace EXCEPT ![p] = Step(@, "insert")]
            ELSE /\ UNCHANGED collection
                 /\ Goto(p, "reg_flush")
                 /\ trace' = [trace EXCEPT ![p] =
                                Step(@, "insert_failed")]
    /\ UNCHANGED <<mysql_conn, redis_conn, calls, call, results>>

\* lines 156-162: collection.insert, MilvusException caught
RegisterInsert(p) ==
    /\ pc[p] = "reg_insert"
    /\ \E insert_ok \in BOOLEAN :
        LET person_id == call[p].person_id
            face_vector == call[p].pred_dict.face_feats[1]
            row == [id |-> p, embedding |-> face_vector, person_id |-> person_id]
        IN  IF insert_ok
            THEN /\ collection' = collection \cup {row}
                 /\ Goto(p, "reg_flush")
                 /\ trace' = [trace EXCEPT ![p] = Step(@, "insert")]
            ELSE /\ UNCHANGED collection
                 /\ Return(p, Outcome("failed", "milvus insertion error"))
                 /\ trace' = [trace EXCEPT ![p] =
                                Step(@, "insert_failed")]
    /\ UNCHANGED <<mysql_conn, redis_conn, calls, call, results>>

\* line 164: collection.flush(), outside every try block
RegisterFlush(p) ==
    /\ pc[p] = "reg_flush"
    /\ \E flush_ok \in BOOLEAN :
        IF flush_ok
        THEN /\ Goto(p, "reg_mysql")
             /\ trace' = [trace EXCEPT ![p] = Step(@, "flush")]
        ELSE /\ Raise(p, "MilvusException")
             /\ trace' = [trace EXCEPT ![p] = Step(@, "flush_failed")]
    /\ UNCHANGED <<stores, calls, call, results>>

\* lines 166-178, 181-182: INSERT and commit, pymysql.Error caught
RegisterMysql(p) ==
    /\ pc[p] = "reg_mysql"
    /\ \E mysql_ok \in BOOLEAN :
        IF mysql_ok
        THEN /\ mysql_conn' = mysql_conn \cup {call[p].person_id}
             /\ Goto(p, "reg_hset")
             /\ trace' = [trace EXCEPT ![p] = Step(@, "mysql")]
        ELSE /\ UNCHANGED mysql_conn
             /\ Goto(p, "reg_compensate")
             /\ trace' = [trace EXCEPT ![p] = Step(@, "mysql_failed")]
    /\ UNCHANGED <<collection, redis_conn, calls, call, results>>

\* the compensation letting the MilvusException of the delete through
RegisterCompensate_Raises(p) ==
    /\ pc[p] = "reg_compensate"
    /\ \E delete_ok \in BOOLEAN :
        LET person_id == call[p].person_id
            coll == DeleteRows(collection, person_id, delete_ok)
            tr == Step(trace[p], IF delete_ok THEN "delete" ELSE "delete_failed")
        IN  /\ collection' = coll
            /\ IF delete_ok
               THEN Return(p, Outcome("failed", "mysql insertion error"))
               ELSE Raise(p, "MilvusException")
            /\ trace' = [ForgetRow(trace, person_id, delete_ok) EXCEPT ![p] =
                            tr]
    /\ UNCHANGED <<mysql_conn, redis_conn, calls, call, results>>

\* lines 179-180: unregister_face(person_id), its result dropped, then return
RegisterCompensate(p) ==
    /\ pc[p] = "reg_compensate"
    /\ \E delete_ok \in BOOLEAN :
        LET person_id == call[p].person_id
            coll == DeleteRows(collection, person_id, delete_ok)
            dropped == unregister_face(person_id, delete_ok)
            tr == Step(trace[p], IF dropped.status = "success" THEN "delete" ELSE "delete_failed")
        IN  /\ collection' = coll
            /\ Return(p, Outcome("failed", "mysql insertion error"))
            /\ trace' = [ForgetRow(trace, person_id, delete_ok) EXCEPT ![p] =
                            tr]
    /\ UNCHANGED <<mysql_conn, redis_conn, calls, call, results>>

\* redis hset(key, mapping): creates the key, an existing key keeps its ttl
Hset(cache, key) ==
    IF \E e \in cache : e.key = key THEN cache ELSE cache \cup {[key |-> key, ttl |-> FALSE]}

\* redis expire(key, 3600)
Expire(cache, key) ==
    {IF e.key = key THEN [e EXCEPT !.ttl = TRUE] ELSE e : e \in cache}

\* lines 185-187: redis_conn.hset, outside every try block
RegisterHset(p) ==
    /\ pc[p] = "reg_hset"
    /\ \E hset_ok \in BOOLEAN :
        IF hset_ok
        THEN /\ redis_conn' = Hset(redis_conn, call[p].person_id)
             /\ Goto(p, "reg_expire")
             /\ trace' = [trace EXCEPT ![p] = Step(@, "hset")]
        ELSE /\ UNCHANGED redis_conn
             /\ Raise(p, "RedisError")
             /\ trace' = [trace EXCEPT ![p] = Step(@, "hset_failed")]
    /\ UNCHANGED <<collection, mysql_conn, calls, call, results>>

\* lines 190-191: the returned dict reads person_data['person_name']
RegisterReturn(p, person_data) ==
    IF "person_name" \in person_data
    THEN Return(p, Outcome("success", "successfully registered"))
    ELSE Raise(p, "KeyError")

\* lines 188-191: redis_conn.expire, outside every try block, then the return
RegisterExpire(p) ==
    /\ pc[p] = "reg_expire"
    /\ \E expire_ok \in BOOLEAN, person_data \in PersonDataKeys :
        LET person_id == call[p].person_id IN
        IF expire_ok
        THEN /\ redis_conn' = Expire(redis_conn, person_id)
             /\ RegisterReturn(p, person_data)
             /\ call' = [call EXCEPT ![p].person_data = person_data]
             /\ trace' = [trace EXCEPT ![p] = Step(@, "expire")]
        ELSE /\ UNCHANGED <<redis_conn, call>>
             /\ Raise(p, "RedisError")
             /\ trace' = [trace EXCEPT ![p] = Step(@, "expire_failed")]
    /\ UNCHANGED <<collection, mysql_conn, calls, results>>

----------------------------------------------------------------------------
(* unregister_face and get_registered_face called by a request *)

\* unregister_face removing the person's relational row and cache entry too
UnregisterFace_DropsPerson(p, person_id) ==
    /\ Free(p)
    /\ calls' = calls + 1
    /\ call' = [call EXCEPT ![p] = [op |-> "unregister_face", person_id |-> person_id]]
    /\ results' = [results EXCEPT ![p] = <<>>]
    /\ \E delete_ok \in BOOLEAN :
        LET coll == DeleteRows(collection, person_id, delete_ok) IN
        /\ collection' = coll
        /\ Return(p, unregister_face(person_id, delete_ok))
        /\ trace' = [ForgetRow(trace, person_id, delete_ok) EXCEPT ![p] =
                       Step([NoTrace EXCEPT !.had_row = (Rows(collection, person_id) # {})],
                            IF delete_ok THEN "delete" ELSE "delete_failed")]
    /\ mysql_conn' = mysql_conn \ {person_id}
    /\ redis_conn' = {e \in redis_conn : e.key # person_id}

\* lines 109-122
UnregisterFace(p, person_id) ==
    /\ Free(p)
    /\ calls' = calls + 1
    /\ call' = [call EXCEPT ![p] = [op |-> "unregister_face", person_id |-> person_id]]
    /\ results' = [results EXCEPT ![p] = <<>>]
    /\ \E delete_ok \in BOOLEAN :
        LET coll == DeleteRows(collection, person_id, delete_ok) IN
        /\ collection' = coll
        /\ Return(p, unregister_face(person_id, delete_ok))
        /\ trace' = [ForgetRow(trace, person_id, delete_ok) EXCEPT ![p] =
                       Step([NoTrace EXCEPT !.had_row = (Rows(collection, person_id) # {})],
                            IF delete_ok THEN "delete" ELSE "delete_failed")]
    /\ UNCHANGED <<mysql_conn, redis_conn>>

\* lines 83-106
GetRegisteredFace(p, person_id) ==
    /\ Free(p)
    /\ calls' = calls + 1
    /\ call' = [call EXCEPT ![p] = [op |-> "get_registered_face", person_id |-> person_id]]
    /\ results' = [results EXCEPT ![p] = <<>>]
    /\ \E query_ok \in BOOLEAN :
        /\ Return(p, get_registered_face(person_id, query_ok))
        /\ trace' = [trace EXCEPT ![p] =
                       Step(NoTrace, IF query_ok THEN "query" ELSE "query_failed")]
    /\ UNCHANGED stores

\* the images registered: no face, an extractor error, one face
RegPreds == {NoFace, InferError} \cup {Faces(<<f>>) : f \in RegFeats}

Next ==
    \/ \E p \in Procs, person_id \in PersonIds, pred_dict \in RegPreds :
          RegisterInfer(p, person_id, pred_dict)
    \/ \E p \in Procs : RegisterCheck(p)
    \/ \E p \in Procs : RegisterInsert(p)
    \/ \E p \in Procs : RegisterFlush(p)
    \/ \E p \in Procs : RegisterMysql(p)
    \/ \E p \in Procs : RegisterCompensate(p)
    \/ \E p \in Procs : RegisterHset(p)
    \/ \E p \in Procs : RegisterExpire(p)
    \/ \E p \in Procs, person_id \in PersonIds : UnregisterFace(p, person_id)
    \/ \E p \in Procs, person_id \in PersonIds : GetRegisteredFace(p, person_id)

Spec == Init /\ [][Next]_vars

----------------------------------------------------------------------------
(* recognize_face.  A descriptor is a point on a line, and the L2 distance *)
(* of two descriptors their absolute difference.                           *)

\* one more bound of the model: the faces one image yields
MaxFaces == 2

\* recognize_face's default face_dist_threshold, 0.1
DefaultFaceDistThreshold == 10

\* limit=3 of collection.search
SearchLimit == 3

FaceDistThresholds == {DefaultFaceDistThreshold, 20}

\* the people and descriptors of the stores recognition runs against
RecIds == {3, 7, 9}

RecEmbs == {5, 9, 10, 11, 20, 30}

\* descriptors of the faces of the query images
Queries == {0, 1}

Distance(a, b) == IF a < b THEN b - a ELSE a - b

\* the sequences that list every element of S once
RECURSIVE Perms(_)
Perms(S) ==
    IF S = {} THEN {<<>>}
    ELSE UNION {{<<x>> \o s : s \in Perms(S \ {x})} : x \in S}

\* the sets of the `limit` rows nearest to a query descriptor
Nearest(coll, q, limit) ==
    LET k == IF Cardinality(coll) < limit THEN Cardinality(coll) ELSE limit IN
    {T \in SUBSET coll :
        /\ Cardinality(T) = k
        /\ \A r \in T, o \in coll \ T :
              Distance(r.embedding, q) <= Distance(o.embedding, q)}

Hit(r, q) == [distance |-> Distance(r.embedding, q), person_id |-> r.person_id]

\* one Hits list of collection.search: the nearest rows of one query, in the
\* order the collaborator hands them over
HitsOf(coll, q) ==
    {[i \in 1..Len(s) |-> Hit(s[i], q)] :
        s \in UNION {Perms(T) : T \in Nearest(coll, q, SearchLimit)}}

\* collection.search(data=face_vector, ...): one Hits list per query descriptor
RECURSIVE SearchResults(_, _)
SearchResults(coll, feats) ==
    IF feats = <<>> THEN {<<>>}
    ELSE {<<h>> \o rest : h \in HitsOf(coll, Head(feats)),
                          rest \in SearchResults(coll, Tail(feats))}

\* k.distances of a Hits list
Distances(hits) == [i \in 1..Len(hits) |-> hits[i].distance]

\* Python's a < b on lists of numbers
RECURSIVE ListLess(_, _)
ListLess(a, b) ==
    IF b = <<>> THEN FALSE
    ELSE IF a = <<>> THEN TRUE
    ELSE IF Head(a) # Head(b) THEN Head(a) < Head(b)
    ELSE ListLess(Tail(a), Tail(b))

\* stable insertion of x into a list sorted by key
RECURSIVE InsertSorted(_, _)
InsertSorted(x, sorted) ==
    IF sorted = <<>> THEN <<x>>
    ELSE IF ListLess(Distances(x), Distances(Head(sorted)))
         THEN <<x>> \o sorted
         ELSE <<Head(sorted)>> \o InsertSorted(x, Tail(sorted))

\* line 228: sorted(results, key=lambda k: k.distances), a stable sort of the
\* Hits lists by their distance lists
RECURSIVE SortedResults(_)
SortedResults(res) ==
    IF res = <<>> THEN <<>>
    ELSE InsertSorted(res[Len(res)], SortedResults(SubSeq(res, 1, Len(res) - 1)))

\* the test written with >= instead of >
TooFar_AtLeast(face_dist, face_dist_threshold) == face_dist >= face_dist_threshold

\* line 232: the test that rejects the candidate
TooFar(face_dist, face_dist_threshold) == face_dist > face_dist_threshold

\* lines 202-214: run_inference and the two early returns
RecognizeInfer(p, pred_dict, face_dist_threshold) ==
    /\ Free(p)
    /\ calls' = calls + 1
    /\ call' = [call EXCEPT ![p] = [op |-> "recognize_face", pred_dict |-> pred_dict,
                                    face_dist_threshold |-> face_dist_threshold]]
    /\ IF pred_dict.status = 0 /\ pred_dict.face_detections = 0
       THEN Return(p, Outcome("failed", "No faces were detected in the image"))
       ELSE IF pred_dict.status < 0
       THEN Return(p, [pred_dict EXCEPT !.status = "failed"])
       ELSE /\ pc' = [pc EXCEPT ![p] = "rec_search"]
            /\ ret' = [ret EXCEPT ![p] = NoRet]
    /\ UNCHANGED <<stores, results, trace>>

\* lines 216-224: collection.search, outside every try block
RecognizeSearch(p) ==
    /\ pc[p] = "rec_search"
    /\ \E search_ok \in BOOLEAN :
        IF search_ok
        THEN /\ \E res \in SearchResults(collection, call[p].pred_dict.face_feats) :
                    results' = [results EXCEPT ![p] = res]
             /\ Goto(p, "rec_select")
             /\ trace' = [trace EXCEPT ![p] = Step(@, "search")]
        ELSE /\ UNCHANGED results
             /\ Raise(p, "MilvusException")
             /\ trace' = [trace EXCEPT ![p] = Step(@, "search_failed")]
    /\ UNCHANGED <<stores, calls, call>>

\* lines 225-235: the choice of the candidate and the threshold decision
recognize_face(res, face_dist_threshold) ==
    IF res = <<>>
    THEN Outcome("failed", "No saved face entries found in database")
    ELSE LET sorted == SortedResults(res) IN
         IF sorted[1] = <<>>
         THEN [status |-> "none", exception |-> "IndexError"]
         ELSE LET face_dist == Distances(sorted[1])[1]
                  person_id == sorted[1][1].person_id
              IN  IF TooFar(face_dist, face_dist_threshold)
                  THEN Outcome("success", "No similar faces were found in the database")
                  ELSE [status |-> "success", message |-> "Detected face matches id",
                        match_id |-> person_id]

RecognizeSelect(p) ==
    /\ pc[p] = "rec_select"
    /\ LET out == recognize_face(results[p], call[p].face_dist_threshold) IN
       IF out.status = "none" THEN Raise(p, out.exception) ELSE Return(p, out)
    /\ UNCHANGED <<stores, calls, call, results, trace>>

\* the images recognised: no face, an extractor error, one face or more
RECURSIVE SeqsOf(_, _)
SeqsOf(S, n) ==
    IF n = 0 THEN {<<>>}
    ELSE {<<x>> \o s : x \in S, s \in SeqsOf(S, n - 1)}

RecPreds ==
    {NoFace, InferError} \cup
    {Faces(f) : f \in UNION {SeqsOf(Queries, n) : n \in 1..MaxFaces}}

\* the collections recognition runs against: at most one row per person
RecStores ==
    {{[id |-> i, embedding |-> f[i], person_id |-> i] : i \in DOMAIN f} :
        f \in UNION {[I -> RecEmbs] : I \in SUBSET RecIds}}

RecInit ==
    /\ collection \in RecStores
    /\ mysql_conn = {}
    /\ redis_conn = {}
    /\ calls = 0
    /\ pc = [p \in Procs |-> "idle"]
    /\ call = [p \in Procs |-> NoCall]
    /\ results = [p \in Procs |-> <<>>]
    /\ ret = [p \in Procs |-> NoRet]
    /\ trace = [p \in Procs |-> NoTrace]

\* one recognition request against each collection
RecNext ==
    \/ \E pred_dict \in RecPreds, face_dist_threshold \in FaceDistThresholds :
          RecognizeInfer(1, pred_dict, face_dist_threshold)
    \/ RecognizeSearch(1)
    \/ RecognizeSelect(1)

RecSpec == RecInit /\ [][RecNext]_vars

----------------------------------------------------------------------------
(* api/milvus.py get_registered_person: the same query as                  *)
(* get_registered_face; the function has no return statement for the case  *)
(* that rows were found, and so returns None.                              *)

\* Python's None: a value with neither "status" nor "message"
PyNone == [status |-> "NoneType"]

get_registered_person(person_id, query_ok) ==
    IF ~query_ok
    THEN Outcome("failed", "MilvusException")
    ELSE IF Rows(collection, person_id) = {}
         THEN Outcome("failed", "not found in database")
         ELSE PyNone

\* api/milvus.py lines 54-72
GetRegisteredPerson(p, person_id) ==
    /\ Free(p)
    /\ calls' = calls + 1
    /\ call' = [call EXCEPT ![p] = [op |-> "get_registered_person", person_id |-> person_id]]
    /\ results' = [results EXCEPT ![p] = <<>>]
    /\ \E query_ok \in BOOLEAN :
        /\ Return(p, get_registered_person(person_id, query_ok))
        /\ trace' = [trace EXCEPT ![p] =
                       Step(NoTrace, IF query_ok THEN "query" ELSE "query_failed")]
    /\ UNCHANGED stores

(* The lookups and unregister_face against the stores earlier requests     *)
(* left behind: per person no row, one row, or the two rows two concurrent *)
(* registrations leave; the relational table empty or holding everybody.   *)

StoredRows ==
    {[id |-> 10 * q + k, embedding |-> f, person_id |-> q] :
        q \in PersonIds, k \in 1..2, f \in RegFeats}

StoreInit ==
    /\ collection \in SUBSET StoredRows
    /\ mysql_conn \in {{}, PersonIds}
    /\ redis_conn = {}
    /\ calls = 0
    /\ pc = [p \in Procs |-> "idle"]
    /\ call = [p \in Procs |-> NoCall]
    /\ results = [p \in Procs |-> <<>>]
    /\ ret = [p \in Procs |-> NoRet]
    /\ trace = [p \in Procs |-> NoTrace]

StoreNext ==
    \/ \E p \in Procs, person_id \in PersonIds : UnregisterFace(p, person_id)
    \/ \E p \in Procs, person_id \in PersonIds : GetRegisteredFace(p, person_id)
    \/ \E p \in Procs, person_id \in PersonIds : GetRegisteredPerson(p, person_id)

StoreSpec == StoreInit /\ [][StoreNext]_vars

----------------------------------------------------------------------------
(* Properties of register_face, checked under Spec *)

IsRegister(p) == call[p].op = "register_face"

Left(p) == pc[p] \in {"done", "raised"}

Returned(p, status) == pc[p] = "done" /\ ret[p].status = status

Said(p, message) ==
    pc[p] = "done" /\ "message" \in DOMAIN ret[p] /\ ret[p].message = message

\* request p returns in this step
Returns(p) == pc[p] # "done" /\ pc'[p] = "done"

\* C1: whenever register_face returns after the relational insert failed
\* (the vector insert having succeeded), the collection holds no row of the
\* person_id and the status returned is "failed".
C1_CompensationRemovesRows ==
    [][\A p \in Procs :
          (Returns(p) /\ IsRegister(p) /\ "mysql_failed" \in trace'[p].steps)
          => /\ Rows(collection', call[p].person_id) = {}
             /\ ret'[p].status = "failed"]_vars

\* C1 as amended: the same whenever the compensating delete succeeded; the
\* status returned is "failed" whether or not it did.
C1_CompensationRemovesRowsIfDeleted ==
    [][\A p \in Procs :
          (Returns(p) /\ IsRegister(p) /\ "mysql_failed" \in trace'[p].steps)
          => /\ "delete" \in trace'[p].steps =>
                    Rows(collection', call[p].person_id) = {}
             /\ trace'[p].steps \cap {"delete", "delete_failed"} # {}
             /\ ret'[p] = Outcome("failed", "mysql insertion error")]_vars

C1_Witness ==
    \E p \in Procs :
        /\ IsRegister(p) /\ Said(p, "mysql insertion error")
        /\ {"insert", "mysql_failed", "delete"} \subseteq trace[p].steps
        /\ Rows(collection, call[p].person_id) = {}

\* C2: a register_face call with a face detected, no row of the person_id
\* found, every collaborator call succeeding and person_data holding exactly
\* the seven table columns returns status "success" (the first half of the
\* scenario, on which the get_registered_face that follows it rests).
C2_HappyPathSucceeds ==
    \A p \in Procs :
        (/\ IsRegister(p) /\ Left(p)
         /\ trace[p].steps = {"query", "insert", "flush", "mysql", "hset", "expire"}
         /\ call[p].person_data = PersonFields)
        => Returned(p, "success")

\* C3: no call ends in an exception that escapes the function, and every
\* call that returns hands back a status "success" or "failed".
C3_EveryCallReturnsOutcome ==
    \A p \in Procs :
        /\ pc[p] # "raised"
        /\ pc[p] = "done" => ret[p].status \in {"success", "failed"}

\* C4: a register_face call whose relational insert committed and whose
\* cache write (hset or expire) failed still returns status "success".
C4_CacheFailureStillSuccess ==
    \A p \in Procs :
        (/\ IsRegister(p) /\ Left(p)
         /\ "mysql" \in trace[p].steps
         /\ trace[p].steps \cap {"hset_failed", "expire_failed"} # {})
        => Returned(p, "success")

\* C5: the collection holds at most one row per person_id.
C5_OneRowPerPerson ==
    \A person_id \in PersonIds : Cardinality(Rows(collection, person_id)) <= 1

\* C6: when register_face returns status "failed" without a failed
\* compensating delete, the collection holds a row of the person_id only if
\* the person table holds the person's row.
C6_NoVectorOnlyRows ==
    [][\A p \in Procs :
          (/\ Returns(p) /\ IsRegister(p) /\ ret'[p].status = "failed"
           /\ "delete_failed" \notin trace'[p].steps)
          => (Rows(collection', call'[p].person_id) # {}
                => call'[p].person_id \in mysql_conn')]_vars

\* C6 as amended: once register_face has returned status "failed" without a
\* failed compensating delete, the collection holds no row that this call
\* inserted.
C6_NoOwnRowSurvives ==
    \A p \in Procs :
        (/\ IsRegister(p) /\ Returned(p, "failed")
         /\ "delete_failed" \notin trace[p].steps)
        => ~ \E r \in collection : r.id = p

C6_Witness ==
    \E p \in Procs :
        /\ IsRegister(p) /\ Returned(p, "failed")
        /\ {"insert", "delete"} \subseteq trace[p].steps
        /\ Rows(collection, call[p].person_id) # {}
        /\ call[p].person_id \notin mysql_conn

RejectionMessages ==
    {"No faces were detected in the image", "already exists in milvus db"}

\* C7: a register_face call that ends in a rejection (no face detected, or
\* the person_id already present) has run only its inference and its
\* duplicate check, and neither step changed the collection, the person
\* table or the cache; no compensating delete was made.
C7_RejectionChangesNothing ==
    [][\A p \in Procs :
          /\ (pc[p] = "idle" /\ pc'[p] # "idle" /\ call'[p].op = "register_face")
             => /\ UNCHANGED stores
                /\ pc'[p] = "done" => trace'[p].steps = {}
          /\ (/\ Returns(p) /\ IsRegister(p) /\ pc[p] # "idle"
              /\ "message" \in DOMAIN ret'[p] /\ ret'[p].message \in RejectionMessages)
             => /\ pc[p] = "reg_check"
                /\ UNCHANGED stores
                /\ trace'[p].steps = {"query"}]_vars

C7_Witness ==
    \E p \in Procs :
        /\ IsRegister(p) /\ Said(p, "already exists in milvus db")
        /\ Rows(collection, call[p].person_id) # {}
        /\ trace[p].steps = {"query"}

\* C8: a register_face call that started when the collection held a row of
\* its person_id, with a face detected and no delete of that person_id
\* before its duplicate check, returns "failed" with "already exists".
C8_SecondRegisterRejected ==
    \A p \in Procs :
        (/\ IsRegister(p) /\ trace[p].had_row
         /\ call[p].pred_dict.face_detections > 0
         /\ pc[p] # "reg_check")
        => /\ Returned(p, "failed")
           /\ Said(p, "already exists in milvus db")

----------------------------------------------------------------------------
(* Properties of recognize_face, checked under RecSpec *)

\* the candidates of a Hits list, and the least of their distances
Candidates(hits) == {hits[i] : i \in 1..Len(hits)}

MinDistance(hits) ==
    CHOOSE d \in {h.distance : h \in Candidates(hits)} :
        \A h \in Candidates(hits) : d <= h.distance

\* C9: with one query descriptor, recognize_face decides on the candidate of
\* least distance whatever the order of the candidates: a match reports the
\* person_id of a candidate at the least distance, and the candidates at
\* 0.05, 0.2, 0.3 of persons 7, 3, 9 always yield match_id 7.
C9_SelectsMinimum ==
    \A p \in Procs :
        (pc[p] = "done" /\ call[p].op = "recognize_face" /\ Len(results[p]) = 1
         /\ results[p][1] # <<>>)
        => LET hits == results[p][1] IN
           /\ "match_id" \in DOMAIN ret[p]
                => \E h \in Candidates(hits) :
                      h.person_id = ret[p].match_id /\ h.distance = MinDistance(hits)
           /\ Candidates(hits) = {[distance |-> 5, person_id |-> 7],
                                  [distance |-> 20, person_id |-> 3],
                                  [distance |-> 30, person_id |-> 9]}
                => "match_id" \in DOMAIN ret[p] /\ ret[p].match_id = 7

\* a search that returned one candidate for one query descriptor
OneCandidate(p) ==
    /\ pc[p] = "done" /\ call[p].op = "recognize_face"
    /\ Len(results[p]) = 1 /\ Len(results[p][1]) = 1

\* C10: the only candidate at a distance equal to face_dist_threshold is
\* no match (no match_id); at a distance just below it is a match.
C10_EqualIsNoMatch ==
    \A p \in Procs :
        OneCandidate(p)
        => LET d == results[p][1][1].distance
               t == call[p].face_dist_threshold IN
           /\ d = t => "match_id" \notin DOMAIN ret[p]
           /\ d = t - 1 => "match_id" \in DOMAIN ret[p]

\* the distance recognize_face compares with the threshold (line 230) and
\* the person it would report (line 231)
FaceDist(res) == Distances(SortedResults(res)[1])[1]

FacePerson(res) == SortedResults(res)[1][1].person_id

\* C10 as amended: a compared distance equal to face_dist_threshold is a
\* match, as is one just below: the outcome carries the match_id of the
\* candidate compared; a distance above the threshold carries none.
C10_EqualIsMatch ==
    \A p \in Procs :
        (pc[p] = "done" /\ call[p].op = "recognize_face" /\ results[p] # <<>>)
        => LET d == FaceDist(results[p])
               t == call[p].face_dist_threshold IN
           /\ ret[p].status = "success"
           /\ d <= t => /\ "match_id" \in DOMAIN ret[p]
                        /\ ret[p].match_id = FacePerson(results[p])
           /\ d > t => "match_id" \notin DOMAIN ret[p]

C10_Witness ==
    \E p \in Procs :
        /\ OneCandidate(p)
        /\ results[p][1][1].distance = call[p].face_dist_threshold
        /\ "match_id" \in DOMAIN ret[p]

\* C11: with one query descriptor and at least one candidate returned,
\* recognize_face returns status "success"; a least distance above
\* face_dist_threshold gives no match_id, a least distance below it gives
\* the match_id of a candidate at that least distance.
C11_ClosestDecides ==
    \A p \in Procs :
        (Left(p) /\ call[p].op = "recognize_face" /\ Len(results[p]) = 1
         /\ results[p][1] # <<>>)
        => LET hits == results[p][1]
               d == MinDistance(hits)
               t == call[p].face_dist_threshold IN
           /\ Returned(p, "success")
           /\ d > t => "match_id" \notin DOMAIN ret[p]
           /\ d < t => /\ "match_id" \in DOMAIN ret[p]
                       /\ \E h \in Candidates(hits) :
                             h.distance = d /\ h.person_id = ret[p].match_id

\* C12: a search that succeeded against a collection without rows makes
\* recognize_face return "failed" with the no-saved-entries message.
C12_EmptyStoreRejected ==
    \A p \in Procs :
        (/\ call[p].op = "recognize_face" /\ Left(p)
         /\ "search" \in trace[p].steps /\ collection = {})
        => /\ Returned(p, "failed")
           /\ Said(p, "No saved face entries found in database")

\* a lookup of person_id by request p in this step
Looks(p, person_id) ==
    /\ Returns(p)
    /\ call'[p].op \in {"get_registered_face", "get_registered_person"}
    /\ call'[p].person_id = person_id

\* C13: get_registered_face and get_registered_person return an outcome with
\* a status and a message; the status is "success" exactly when the query
\* succeeded and the collection holds a row of the person_id, and "failed"
\* otherwise.
C13_LookupReportsRow ==
    [][\A p \in Procs, person_id \in PersonIds :
          Looks(p, person_id)
          => /\ {"status", "message"} \subseteq DOMAIN ret'[p]
             /\ ret'[p].status \in {"success", "failed"}
             /\ ret'[p].status = "success"
                  <=> /\ "query" \in trace'[p].steps
                      /\ Rows(collection, person_id) # {}]_vars

\* C14: a register_face call whose vector insert succeeded does not end
\* before it committed the relational row or ran the compensating delete.
C14_InsertCommittedOrCompensated ==
    \A p \in Procs :
        (IsRegister(p) /\ Left(p) /\ "insert" \in trace[p].steps)
        => trace[p].steps \cap {"mysql", "delete", "delete_failed"} # {}

\* C15: a register_face call whose duplicate-check lookup failed returns
\* "failed" there and then, and never reaches the vector insert.
C15_FailedLookupRejects ==
    \A p \in Procs :
        (IsRegister(p) /\ "query_failed" \in trace[p].steps)
        => /\ Returned(p, "failed")
           /\ trace[p].steps = {"query_failed"}

\* C16: the step of register_face in which the vector insert fails returns
\* "failed" with the vector-insertion error message and changes none of the
\* three stores; such a call has run the duplicate check and nothing else:
\* no flush, relational insert, compensating delete or cache write.
C16_FailedInsertStops ==
    [][\A p \in Procs :
          (IsRegister(p) /\ "insert_failed" \in trace'[p].steps)
          => /\ pc'[p] = "done"
             /\ ret'[p] = Outcome("failed", "milvus insertion error")
             /\ trace'[p].steps \subseteq {"query", "query_failed", "insert_failed"}
             /\ pc[p] = "reg_insert" => UNCHANGED stores]_vars

C16_Witness ==
    \E p \in Procs :
        /\ IsRegister(p) /\ "insert_failed" \in trace[p].steps
        /\ Said(p, "milvus insertion error")
        /\ Rows(collection, call[p].person_id) = {}

\* C17: a register_face call whose relational insert failed and whose
\* compensating delete failed too has returned "failed" with the mysql
\* insertion error message; after a failed relational insert the call never
\* leaves by an exception.
C17_FailedCompensationStillFailed ==
    \A p \in Procs :
        (IsRegister(p) /\ "mysql_failed" \in trace[p].steps)
        => /\ pc[p] # "raised"
           /\ "delete_failed" \in trace[p].steps
                => /\ pc[p] = "done"
                   /\ ret[p] = Outcome("failed", "mysql insertion error")

C17_Witness ==
    \E p \in Procs :
        /\ IsRegister(p)
        /\ {"mysql_failed", "delete_failed"} \subseteq trace[p].steps
        /\ Said(p, "mysql insertion error")
        /\ Rows(collection, call[p].person_id) # {}

\* unregister_face(person_id) called and returning in this step, for request p
Unregisters(p, person_id) ==
    /\ Returns(p)
    /\ call'[p].op = "unregister_face"
    /\ call'[p].person_id = person_id

\* request q has returned from unregister_face(person_id)
Unregistered(q, person_id) ==
    /\ pc[q] = "done"
    /\ call[q].op = "unregister_face"
    /\ call[q].person_id = person_id

\* C18: unregister_face for a person_id without a row returns "success" and
\* leaves the collection unchanged; a second unregister_face of a person_id
\* leaves the state the first call left and returns the same outcome.
C18_UnregisterIdempotent ==
    [][\A p \in Procs, person_id \in PersonIds :
          Unregisters(p, person_id)
          => /\ Rows(collection, person_id) = {}
                  => ret'[p].status = "success" /\ collection' = collection
             /\ \A q \in Procs :
                  Unregistered(q, person_id)
                  => collection' = collection /\ ret'[p] = ret[q]]_vars

\* C18 as amended: the same whenever collection.delete does not raise, in
\* the second call and in the first; an unregister_face whose delete raises
\* returns "failed" and leaves the collection unchanged.
C18_UnregisterIdempotentIfDeleted ==
    [][\A p \in Procs, person_id \in PersonIds :
          Unregisters(p, person_id)
          => IF "delete" \in trace'[p].steps
             THEN /\ ret'[p].status = "success"
                  /\ Rows(collection, person_id) = {} => collection' = collection
                  /\ \A q \in Procs :
                       (Unregistered(q, person_id) /\ "delete" \in trace[q].steps)
                       => collection' = collection /\ ret'[p] = ret[q]
             ELSE /\ ret'[p].status = "failed"
                  /\ collection' = collection]_vars

\* two unregister_face calls of a registered person, one after the other
C18_Witness ==
    \E p, q \in Procs, person_id \in PersonIds :
        /\ p < q
        /\ Unregistered(p, person_id) /\ Unregistered(q, person_id)
        /\ trace[p].had_row /\ ~trace[q].had_row
        /\ "delete" \in trace[p].steps /\ "delete" \in trace[q].steps
        /\ Returned(p, "success") /\ ret[q] = ret[p]
        /\ Rows(collection, person_id) = {}

\* C19: while no request has called unregister_face for a person_id and
\* every duplicate-check lookup for it succeeded, a register_face call that
\* returned "success" for the person_id still has a row of it in the
\* collection, however the register_face calls interleave.
C19_SuccessKeepsRow ==
    \A p \in Procs :
        (/\ IsRegister(p) /\ Returned(p, "success")
         /\ \A q \in Procs :
              /\ ~Unregistered(q, call[p].person_id)
              /\ (call[q].op = "register_face" /\ call[q].person_id = call[p].person_id)
                   => "query_failed" \notin trace[q].steps)
        => Rows(collection, call[p].person_id) # {}

\* C20: every unregister_face(person_id) step leaves the collection without
\* a row of the person_id, and leaves the relational table and the cache
\* as they were.
C20_UnregisterLeavesMetadata ==
    [][\A p \in Procs, person_id \in PersonIds :
          Unregisters(p, person_id)
          => /\ Rows(collection', person_id) = {}
             /\ UNCHANGED <<mysql_conn, redis_conn>>]_vars

\* C20 as amended: an unregister_face(person_id) step whose delete does not
\* raise removes exactly the rows of the person_id, one whose delete raises
\* leaves the collection as it was; both leave the relational table and the
\* cache as they were.
C20_UnregisterLeavesMetadataIfDeleted ==
    [][\A p \in Procs, person_id \in PersonIds :
          Unregisters(p, person_id)
          => /\ UNCHANGED <<mysql_conn, redis_conn>>
             /\ IF "delete" \in trace'[p].steps
                THEN collection' = collection \ Rows(collection, person_id)
                ELSE collection' = collection]_vars

\* a committed registration followed by unregister_face: the relational row
\* and the cache entry stay, the collection holds no row of the person
C20_Witness ==
    \E p, q \in Procs :
        /\ IsRegister(p) /\ Returned(p, "success")
        /\ Unregistered(q, call[p].person_id)
        /\ trace[q].had_row /\ "delete" \in trace[q].steps
        /\ Rows(collection, call[p].person_id) = {}
        /\ call[p].person_id \in mysql_conn
        /\ \E e \in redis_conn : e.key = call[p].person_id

====
